---- MODULE Spec2Model ----
(***************************************************************************)
(* Model of src/headless_fabric.py: the HeadlessFabric wrapper around the  *)
(* Fabric 1.x API (fabric.api: env, execute, get, put, run, quiet, hide).  *)
(*                                                                         *)
(* The wrapper's own code is _run_fabric_command and _transfer_file (the   *)
(* per-host task bodies with their try/except ladders) and the three       *)
(* public methods, each of which is a single call of fabric.api.execute.   *)
(* What execute, run, get and put do at those call sites is the behaviour  *)
(* of Fabric 1.x:                                                          *)
(*   - execute resolves the host list (hosts=/host= keyword, merged and    *)
(*     de-duplicated), runs the task once locally when the list is empty,  *)
(*     and otherwise, with env.parallel set, forks one child process per   *)
(*     host, waits for all of them, and then calls error() for every child *)
(*     whose exit code is not 0; error() aborts (raises SystemExit) unless *)
(*     env.warn_only is set in the parent;                                 *)
(*   - run/get/put connect lazily; the connection is retried on socket     *)
(*     errors until env.connection_attempts tries were made and then       *)
(*     raises NetworkError; a needed prompt aborts (SystemExit) because    *)
(*     env.abort_on_prompts is set.                                        *)
(* Texts are sequences of string tokens: str.format is concatenation.      *)
(***************************************************************************)
EXTENDS Integers, Sequences, FiniteSets, TLC

VARIABLES env, behav, pc, call, worker, outcome, plog, ncalls, sessions

vars == <<env, behav, pc, call, worker, outcome, plog, ncalls, sessions>>

\* ------------------------------------------------------------------ bounds
MaxHostListLen == 2
MaxAttempts == 2
MaxCalls == 2
MaxSessions == 2

\* ------------------------------------------------------- program constants
DefaultCmdTimeout == 120
DefaultNetTimeout == 120

None == "None"
Hosts == {"hA", "hB"}
KeyFiles == {"id_rsa"}
Commands == {"ls"}
RemoteFile == "example.out"
LocalFile == "local_example.out"
Statuses == {1, 2}
Outputs == {<<"out">>, <<>>}
LocalOnly == "<local-only>"

\* How a host answers the transport, fixed per host for the whole run:
\*   ok          connects, the command/transfer succeeds
\*   nonzero     connects, the command exits non-zero / the transfer is marked failed
\*   exception   connects, the transport raises (command timeout, I/O error)
\*   unreachable every connection attempt fails with a socket error
\*   flaky       a connection attempt may fail or succeed
\*   prompt      authentication falls back to a password prompt
Behaviours == {"ok", "nonzero", "exception", "unreachable", "flaky", "prompt"}

\* ----------------------------------------------------------------- values
Range(s) == {s[i] : i \in DOMAIN s}

Contains(text, tok) == \E i \in DOMAIN text : text[i] = tok

SeqsUpTo(S, n) == UNION {[1..k -> S] : k \in 0..n}

\* A value a call produces: nothing yet, a returned result, or a raised exception.
\* text is str(value): the captured output of a result, the message of an exception.
NoOutcome ==
    [kind |-> "none", class |-> None, failed |-> FALSE, return_code |-> 0,
     text |-> <<>>]

Result(failed, return_code, output) ==
    [kind |-> "return", class |-> "result", failed |-> failed,
     return_code |-> return_code, text |-> output]

Raise(class, text) ==
    [kind |-> "raise", class |-> class, failed |-> TRUE, return_code |-> 0,
     text |-> text]

\* Python: SystemExit derives from BaseException, not from Exception.
IsException(class) == class # "SystemExit"

\* fabric.utils.abort: raise SystemExit(1); str() of it is "1".
Abort == Raise("SystemExit", <<"1">>)

\* ------------------------------------------------- the per-host task bodies
\* A task run yields the value it returns or raises, and the warnings it logged.
Ran(out, log) == [out |-> out, log |-> log]

\* The transfer result of Fabric's get/put has .failed but may lack .return_code.
NoReturnCode == -1

CommandFailedText(command, t) ==
    <<"Remote command '", command, "' failed with status code ",
      ToString(t.return_code), ": ">> \o t.text

CommandBecauseText(command, exc) ==
    <<"Remote command ", command, " failed because '">> \o exc.text \o <<"'">>

CommandPromptText(command, exc) ==
    <<"Remote command ", command, " failed because a user prompt was needed: ">>
        \o exc.text

\* The try block of _run_fabric_command: t is what run(command) returned or raised.
RunCommandBody(command, t) ==
    IF t.kind = "return" /\ t.failed
    THEN LET err_str == CommandFailedText(command, t)
         IN  Ran(Raise("RuntimeError", err_str), <<err_str>>)
    ELSE Ran(t, <<>>)

\* _run_fabric_command: the try block, then the first matching except clause.
\* The RuntimeError of the try block is itself caught by "except Exception".
run_fabric_command(command, t) ==
    LET body == RunCommandBody(command, t)
    IN  IF body.out.kind = "raise" /\ IsException(body.out.class)
        THEN LET err_str == CommandBecauseText(command, body.out)
             IN  Ran(Raise("RuntimeError", err_str), body.log \o <<err_str>>)
        ELSE IF body.out.kind = "raise" /\ body.out.class = "SystemExit"
        THEN LET err_str == CommandPromptText(command, body.out)
             IN  Ran(Raise("LookupError", err_str), body.log \o <<err_str>>)
        ELSE body

TransferFailedText(file1, file2, t) ==
    <<"File transfer (", file1, " - ", file2, ") failed with status code ",
      ToString(t.return_code)>>

TransferBecauseText(file1, file2, exc) ==
    <<"File transfer (", file1, " - ", file2, ") failed because: ">> \o exc.text

TransferPromptText(file1, file2, exc) ==
    <<"File transfer (", file1, " - ", file2,
      ") failed because a user prompt was needed: ">> \o exc.text

\* The try block of _transfer_file: t is what transfer_func(file1, file2)
\* returned or raised. Reading a return_code the result does not have raises
\* AttributeError before the error text is built.
TransferBody(file1, file2, t) ==
    IF t.kind = "return" /\ t.failed
    THEN IF t.return_code = NoReturnCode
         THEN Ran(Raise("AttributeError",
                        <<"object has no attribute 'return_code'">>), <<>>)
         ELSE LET err_str == TransferFailedText(file1, file2, t)
              IN  Ran(Raise("RuntimeError", err_str), <<err_str>>)
    ELSE Ran(t, <<>>)

\* _transfer_file: the try block, then the first matching except clause.
transfer_file(file1, file2, t) ==
    LET body == TransferBody(file1, file2, t)
    IN  IF body.out.kind = "raise" /\ IsException(body.out.class)
        THEN LET err_str == TransferBecauseText(file1, file2, body.out)
             IN  Ran(Raise("RuntimeError", err_str), body.log \o <<err_str>>)
        ELSE IF body.out.kind = "raise" /\ body.out.class = "SystemExit"
        THEN LET err_str == TransferPromptText(file1, file2, body.out)
             IN  Ran(Raise("LookupError", err_str), body.log \o <<err_str>>)
        ELSE body

\* The task a call hands to execute, applied to the transport's answer.
RunTask(c, t) ==
    IF c.op = "execute"
    THEN run_fabric_command(c.file1, t)
    ELSE transfer_file(c.file1, c.file2, t)

\* ------------------------------------------------------------- environment
\* fabric.state.env as the library ships it (the keys this program touches).
DefaultEnv ==
    [connection_attempts |-> 1, command_timeout |-> 0, timeout |-> 10,
     abort_on_prompts |-> FALSE, skip_bad_hosts |-> FALSE, parallel |-> FALSE,
     gateway |-> None, use_ssh_config |-> FALSE, no_keys |-> FALSE,
     key_filename |-> None, warn_only |-> FALSE,
     host_string |-> None, hosts |-> <<>>, all_hosts |-> <<>>, command |-> None]

\* Mutant of HeadlessFabricInit: prompts and parallel left as the library
\* ships them.
InitInteractive(e, conn_attempts, cmd_timeout, net_timeout, key_file, gateway) ==
    [e EXCEPT !.connection_attempts = conn_attempts,
              !.command_timeout = cmd_timeout,
              !.timeout = net_timeout,
              !.skip_bad_hosts = TRUE,
              !.gateway = gateway,
              !.use_ssh_config = TRUE]

\* HeadlessFabric.__init__: every assignment is to the process-wide env.
HeadlessFabricInit(e, conn_attempts, cmd_timeout, net_timeout, key_file, gateway) ==
    LET e1 == [e EXCEPT !.connection_attempts = conn_attempts,
                        !.command_timeout = cmd_timeout,
                        !.timeout = net_timeout,
                        !.abort_on_prompts = TRUE,
                        !.skip_bad_hosts = TRUE,
                        !.parallel = TRUE,
                        !.gateway = gateway,
                        !.use_ssh_config = TRUE]
    IN  IF key_file # None
        THEN [e1 EXCEPT !.no_keys = TRUE, !.key_filename = key_file]
        ELSE e1

\* ------------------------------------------------------------------- state
\* The arguments a HeadlessFabric object was constructed with. The object keeps
\* none of them: sessions records them, in the order of construction.
Policy(conn_attempts, cmd_timeout, net_timeout, key_file, gateway) ==
    [conn_attempts |-> conn_attempts, cmd_timeout |-> cmd_timeout,
     net_timeout |-> net_timeout, key_file |-> key_file, gateway |-> gateway]

Policies ==
    {Policy(n, DefaultCmdTimeout, DefaultNetTimeout, k, None) :
        n \in 1..MaxAttempts, k \in {None} \cup KeyFiles}

\* The call in progress (or the last one): the object it is made on (self, an
\* index of sessions), the method, its arguments, the host
\* list execute resolved (all_hosts), the env values settings() will restore
\* (saved) and, as history, the hosts passed to the call before (prev_hosts).
NoCall ==
    [self |-> 0, op |-> None, file1 |-> None, file2 |-> None, hosts |-> <<>>,
     is_list |-> FALSE, all_hosts |-> <<>>,
     saved |-> [command |-> None, all_hosts |-> <<>>, warn_only |-> FALSE],
     prev_hosts |-> {}]

\* What the caller of a public method gets: a returned mapping host -> value
\* (results) or a raised exception (class, text).
NoResults == [h \in Hosts |-> NoOutcome]

NoCallOutcome ==
    [kind |-> "none", class |-> None, text |-> <<>>, results |-> NoResults]

CallReturn(results) ==
    [kind |-> "return", class |-> "dict", text |-> <<>>, results |-> results]

CallRaise(exc) ==
    [kind |-> "raise", class |-> exc.class, text |-> exc.text,
     results |-> NoResults]

\* A child process of one parallel execute: its copy of env (host_string,
\* command, warn_only), the connection attempts it made, the transport's answer
\* to its run/get/put (answer), what it submitted to the parent's queue (out),
\* its exit code and the warnings it logged.
IdleWorker ==
    [pc |-> "none", attempts |-> 0, host_string |-> None, command |-> None,
     warn_only |-> FALSE, answer |-> NoOutcome, out |-> NoOutcome,
     exit_code |-> 0, log |-> <<>>]

TypeOK ==
    /\ pc \in {"idle", "local", "localtask", "running", "blocked", "done"}
    /\ behav \in [Hosts -> Behaviours]
    /\ ncalls \in 0..MaxCalls
    /\ env.connection_attempts \in 1..MaxAttempts
    /\ \A h \in Hosts :
          /\ worker[h].pc \in {"none", "connecting", "connected", "blocked", "exited"}
          /\ worker[h].attempts \in 0..MaxAttempts
    /\ outcome.kind \in {"none", "return", "raise"}

Init ==
    /\ \E n \in 1..MaxAttempts :
          /\ env = HeadlessFabricInit(DefaultEnv, n, DefaultCmdTimeout,
                                      DefaultNetTimeout, None, None)
          /\ sessions = <<Policy(n, DefaultCmdTimeout, DefaultNetTimeout,
                                 None, None)>>
    /\ behav \in [Hosts -> Behaviours]
    /\ pc = "idle"
    /\ call = NoCall
    /\ worker = [h \in Hosts |-> IdleWorker]
    /\ outcome = NoCallOutcome
    /\ plog = <<>>
    /\ ncalls = 0

\* ------------------------------------------- execute: resolving the hosts
RECURSIVE Dedupe(_)
\* fabric.task_utils.merge: duplicates dropped, the first occurrence kept.
Dedupe(s) ==
    IF s = <<>> THEN <<>>
    ELSE LET front == Dedupe(SubSeq(s, 1, Len(s) - 1))
             last == s[Len(s)]
         IN  IF last \in Range(front) THEN front ELSE Append(front, last)

\* get_file/put_file pass host=host: execute makes the one-element list [host]
\* of it and strips each element; an element that is itself a list has no
\* strip(), which raises AttributeError before any host is contacted.
BadHostString(c) == c.op # "execute" /\ c.is_list

\* The host list of a call: the hosts=/host= keyword when it is not empty,
\* otherwise the global env.hosts.
get_hosts(c, e) == IF c.hosts # <<>> THEN Dedupe(c.hosts) ELSE Dedupe(e.hosts)

TaskName(c) == IF c.op = "execute" THEN "_run_fabric_command" ELSE "_transfer_file"

\* Mutant of Forked: every child reads the host from one shared binding,
\* which holds the host dispatched last.
ForkedShared(h, c) == [IdleWorker EXCEPT !.pc = "connecting", !.host_string = c.hosts[Len(c.hosts)], !.command = TaskName(c), !.warn_only = TRUE]

\* A forked child: env updated with the host's connection settings and with
\* command/all_hosts; the task starts at once and enters "with quiet()".
Forked(h, c) ==
    [IdleWorker EXCEPT !.pc = "connecting", !.host_string = h,
                       !.command = TaskName(c), !.warn_only = TRUE]

\* settings(**my_env) around the local-only run, and its revert on exit.
EnterSettings(e, c) == [e EXCEPT !.command = TaskName(c), !.all_hosts = <<>>]

\* Mutant of RevertSettings: the whole env put back to the library defaults.
RevertToDefaults(e, saved) == DefaultEnv

RevertSettings(e, saved) ==
    [e EXCEPT !.command = saved.command, !.all_hosts = saved.all_hosts]

\* "with quiet(), hide(...)" of the task bodies: warn_only set (and output
\* hidden) on entry, the value from before restored on every exit.
EnterQuiet(e) == [e EXCEPT !.warn_only = TRUE]

\* Mutant of ExitQuiet: the setting of the with-block is left in effect.
ExitQuietKept(e, warn_only) == e

ExitQuiet(e, warn_only) == [e EXCEPT !.warn_only = warn_only]

\* Mutant of InjectHosts: the host list assigned to the global env.hosts.
InjectHostsGlobally(e, host_list) == [e EXCEPT !.hosts = host_list]

\* How the public methods hand the per-call host list to execute: as the
\* hosts=/host= keyword of that one call; the global env.hosts is not assigned.
InjectHosts(e, host_list) == e

\* fabric.tasks.execute(task, ..., hosts=/host=) up to the point where the
\* task runs: an error of host resolution is raised to the caller, an empty
\* list enters the local-only run, anything else forks one child per host.
FabricExecute(c) ==
    LET e0 == InjectHosts(env, c.hosts)
    IN
    IF BadHostString(c)
    THEN /\ call' = c
         /\ pc' = "done"
         /\ outcome' = CallRaise(Raise("AttributeError",
                           <<"'list' object has no attribute 'strip'">>))
         /\ worker' = [h \in Hosts |-> IdleWorker]
         /\ env' = e0
    ELSE LET all_hosts == get_hosts(c, e0)
         IN  IF all_hosts = <<>>
             THEN /\ call' = [c EXCEPT !.saved = [command |-> e0.command,
                                                  all_hosts |-> e0.all_hosts,
                                                  warn_only |-> e0.warn_only]]
                  /\ pc' = "local"
                  /\ outcome' = NoCallOutcome
                  /\ worker' = [h \in Hosts |-> IdleWorker]
                  /\ env' = EnterSettings(e0, c)
             ELSE /\ call' = [c EXCEPT !.all_hosts = all_hosts]
                  /\ pc' = "running"
                  /\ outcome' = NoCallOutcome
                  /\ worker' = [h \in Hosts |->
                                  IF h \in Range(all_hosts) THEN Forked(h, c)
                                  ELSE IdleWorker]
                  /\ env' = e0

\* ------------------------------------------------------ the public methods
CanCall == pc = "idle" /\ ncalls < MaxCalls

\* HeadlessFabric.execute(self, command, host_list)
execute(self, command, host_list) ==
    /\ CanCall
    /\ FabricExecute([NoCall EXCEPT !.self = self,
                                    !.op = "execute", !.file1 = command,
                                    !.hosts = host_list, !.is_list = TRUE,
                                    !.prev_hosts = call.prev_hosts])
    /\ ncalls' = ncalls + 1
    /\ UNCHANGED <<behav, plog, sessions>>

\* HeadlessFabric.get_file(host, remote_file, local_file); host is a host
\* string (is_list = FALSE, hosts = <<host>>) or, by caller error, a list.
get_file(self, hosts, is_list, remote_file, local_file) ==
    /\ CanCall
    /\ FabricExecute([NoCall EXCEPT !.self = self,
                                    !.op = "get_file", !.file1 = remote_file,
                                    !.file2 = local_file, !.hosts = hosts,
                                    !.is_list = is_list,
                                    !.prev_hosts = call.prev_hosts])
    /\ ncalls' = ncalls + 1
    /\ UNCHANGED <<behav, plog, sessions>>

\* HeadlessFabric.put_file(host, local_file, remote_file)
put_file(self, hosts, is_list, local_file, remote_file) ==
    /\ CanCall
    /\ FabricExecute([NoCall EXCEPT !.self = self,
                                    !.op = "put_file", !.file1 = local_file,
                                    !.file2 = remote_file, !.hosts = hosts,
                                    !.is_list = is_list,
                                    !.prev_hosts = call.prev_hosts])
    /\ ncalls' = ncalls + 1
    /\ UNCHANGED <<behav, plog, sessions>>

\* The host arguments a caller may pass to get_file/put_file.
HostArgs ==
    {<<<<h>>, FALSE>> : h \in Hosts}
        \cup {<<hl, TRUE>> : hl \in SeqsUpTo(Hosts, MaxHostListLen)}

\* ------------------------------------------------- the transport's answers
\* fabric.network.connect giving up: NetworkError after the last attempt.
NetworkErrorOf(h, e) ==
    Raise("NetworkError",
          <<"Timed out trying to connect to ", h, " (tried ",
            ToString(e.connection_attempts), " times)">>)

\* What run(command) / get / put answer on a connected host.
TransportAnswers(op, b) ==
    CASE b \in {"ok", "flaky"} ->
            {Result(FALSE, 0, o) : o \in Outputs}
      [] b = "nonzero" /\ op = "execute" ->
            {Result(TRUE, s, o) : s \in Statuses, o \in Outputs}
      [] b = "nonzero" /\ op # "execute" ->
            {Result(TRUE, s, <<>>) : s \in Statuses \cup {NoReturnCode}}
      [] b = "exception" /\ op = "execute" ->
            {Raise("CommandTimeout", <<"Command timed out">>)}
      [] b = "exception" /\ op # "execute" ->
            {Raise("IOError", <<"No such file or directory">>)}
      [] OTHER -> {}

\* fabric.utils.handle_prompt_abort: a needed prompt aborts when
\* abort_on_prompts or parallel is set; otherwise the process waits for input.
PromptAborts(e) == e.abort_on_prompts \/ e.parallel

\* The wrapper "inner" of a child process: the task's value is submitted to
\* the queue unless it is a SystemExit; any exception other than an ignored
\* NetworkError ends the child with a non-zero exit code.
NetworkErrorIgnored(out, e) == out.class = "NetworkError" /\ e.skip_bad_hosts

Exited(w, t, ran, e) ==
    [w EXCEPT !.pc = "exited",
              !.warn_only = e.warn_only,
              !.answer = t,
              !.out = IF ran.out.class = "SystemExit" THEN NoOutcome ELSE ran.out,
              !.exit_code = IF ran.out.kind = "raise"
                               /\ ~NetworkErrorIgnored(ran.out, e)
                            THEN 1 ELSE 0,
              !.log = ran.log]

\* ------------------------------------------------------- the child's steps
\* One connection attempt of the child for host h (inside run/get/put), made
\* to the host of the child's own env.host_string.
ConnectAttempt(h) ==
    /\ pc = "running"
    /\ worker[h].pc = "connecting"
    /\ LET w == [worker[h] EXCEPT !.attempts = @ + 1]
           target == worker[h].host_string
           fails == /\ behav[target] \in {"unreachable", "flaky"}
                    /\ worker' = [worker EXCEPT ![h] =
                          IF w.attempts >= env.connection_attempts
                          THEN Exited(w, NetworkErrorOf(target, env),
                                      RunTask(call, NetworkErrorOf(target, env)), env)
                          ELSE w]
           prompts == /\ behav[target] = "prompt"
                      /\ worker' = [worker EXCEPT ![h] =
                            IF PromptAborts(env)
                            THEN Exited(w, Abort, RunTask(call, Abort), env)
                            ELSE [w EXCEPT !.pc = "blocked"]]
           connects == /\ behav[target] \in {"ok", "nonzero", "exception", "flaky"}
                       /\ worker' = [worker EXCEPT ![h] =
                             [w EXCEPT !.pc = "connected"]]
       IN  fails \/ prompts \/ connects
    /\ UNCHANGED <<env, behav, pc, call, outcome, plog, ncalls, sessions>>

\* The command or transfer on the connected host h, and the task's handling
\* of its answer.
RunOnHost(h) ==
    /\ pc = "running"
    /\ worker[h].pc = "connected"
    /\ \E t \in TransportAnswers(call.op, behav[worker[h].host_string]) :
          worker' = [worker EXCEPT ![h] = Exited(@, t, RunTask(call, t), env)]
    /\ UNCHANGED <<env, behav, pc, call, outcome, plog, ncalls, sessions>>

\* ------------------------------------------------------ the parent's steps
\* The local-only run of execute (empty host list): the task runs in the
\* caller's process and enters "with quiet(), hide(...)".
LocalTask ==
    /\ pc = "local"
    /\ pc' = "localtask"
    /\ env' = EnterQuiet(env)
    /\ UNCHANGED <<behav, call, worker, outcome, plog, ncalls, sessions>>

\* run/get/put of the local-only run find no env.host_string and need a
\* prompt; the task handles the abort, and both with-blocks are left.
LocalRun ==
    /\ pc = "localtask"
    /\ env.host_string = None
    /\ IF ~PromptAborts(env)
       THEN /\ pc' = "blocked"
            /\ UNCHANGED <<env, outcome, plog>>
       ELSE LET ran == RunTask(call, Abort)
            IN  /\ pc' = "done"
                /\ outcome' = CallRaise(ran.out)
                /\ plog' = plog \o ran.log
                /\ env' = RevertSettings(ExitQuiet(env, call.saved.warn_only),
                                         call.saved)
    /\ UNCHANGED <<behav, call, worker, ncalls, sessions>>

\* fabric.tasks.execute after jobs.run(): for a child that did not exit
\* cleanly, error() is called, which aborts unless warn_only is set.
ChildFailed(w, e) == w.exit_code # 0 /\ ~NetworkErrorIgnored(w.out, e)

CollectOutcome(e, ws, all_hosts) ==
    IF \E h \in Range(all_hosts) : ChildFailed(ws[h], e) /\ ~e.warn_only
    THEN CallRaise(Abort)
    ELSE CallReturn([h \in Hosts |->
                        IF h \in Range(all_hosts) THEN ws[h].out ELSE NoOutcome])

\* Mutant of JobsDone: the wait ends as soon as one child has failed.
JobsDoneFailFast(ws, all_hosts) ==
    \/ \A h \in Range(all_hosts) : ws[h].pc = "exited"
    \/ \E h \in Range(all_hosts) : ws[h].pc = "exited" /\ ws[h].exit_code # 0

\* jobs.run() of execute: returns when every child has exited.
JobsDone(ws, all_hosts) ==
    \A h \in Range(all_hosts) : ws[h].pc = "exited"

\* All children have exited: execute returns the mapping or aborts.
Collect ==
    /\ pc = "running"
    /\ JobsDone(worker, call.all_hosts)
    /\ outcome' = CollectOutcome(env, worker, call.all_hosts)
    /\ pc' = "done"
    /\ UNCHANGED <<env, behav, call, worker, plog, ncalls, sessions>>

\* The caller has the outcome of the call and goes on; the children are gone.
Return ==
    /\ pc = "done"
    /\ pc' = "idle"
    /\ call' = [NoCall EXCEPT !.prev_hosts = Range(call.hosts)]
    /\ worker' = [h \in Hosts |-> IdleWorker]
    /\ outcome' = NoCallOutcome
    /\ plog' = <<>>
    /\ UNCHANGED <<env, behav, ncalls, sessions>>

Next ==
    \/ \E self \in DOMAIN sessions, command \in Commands,
          host_list \in SeqsUpTo(Hosts, MaxHostListLen) :
          execute(self, command, host_list)
    \/ \E self \in DOMAIN sessions, a \in HostArgs :
          get_file(self, a[1], a[2], RemoteFile, LocalFile)
    \/ \E self \in DOMAIN sessions, a \in HostArgs :
          put_file(self, a[1], a[2], LocalFile, RemoteFile)
    \/ \E h \in Hosts : ConnectAttempt(h)
    \/ \E h \in Hosts : RunOnHost(h)
    \/ LocalTask
    \/ LocalRun
    \/ Collect
    \/ Return

Spec == Init /\ [][Next]_vars

\* The children are processes of their own and the parent runs on: every
\* enabled step of a call in progress is eventually taken.
FairSpec ==
    /\ Spec
    /\ \A h \in Hosts : WF_vars(ConnectAttempt(h)) /\ WF_vars(RunOnHost(h))
    /\ WF_vars(LocalTask) /\ WF_vars(LocalRun) /\ WF_vars(Collect)

\* ------------------------------------------- several objects in one process
\* HeadlessFabric(conn_attempts, ..., key_file, gateway) constructed while
\* another object exists: __init__ assigns the same process-wide env.
Construct(conn_attempts, cmd_timeout, net_timeout, key_file, gateway) ==
    /\ pc = "idle"
    /\ Len(sessions) < MaxSessions
    /\ env' = HeadlessFabricInit(env, conn_attempts, cmd_timeout, net_timeout,
                                 key_file, gateway)
    /\ sessions' = Append(sessions, Policy(conn_attempts, cmd_timeout,
                                           net_timeout, key_file, gateway))
    /\ UNCHANGED <<behav, pc, call, worker, outcome, plog, ncalls>>

\* The first object may be constructed with any policy.
MultiInit ==
    /\ \E p \in Policies :
          /\ env = HeadlessFabricInit(DefaultEnv, p.conn_attempts, p.cmd_timeout,
                                      p.net_timeout, p.key_file, p.gateway)
          /\ sessions = <<p>>
    /\ behav \in [Hosts -> {"ok", "unreachable"}]
    /\ pc = "idle"
    /\ call = NoCall
    /\ worker = [h \in Hosts |-> IdleWorker]
    /\ outcome = NoCallOutcome
    /\ plog = <<>>
    /\ ncalls = 0

MultiNext ==
    \/ Next
    \/ \E p \in Policies :
          Construct(p.conn_attempts, p.cmd_timeout, p.net_timeout, p.key_file,
                    p.gateway)

MultiSpec == MultiInit /\ [][MultiNext]_vars

\* =================================================================== claims
\* The error kinds of the specification, read off the exception a caller sees:
\* the program raises RuntimeError for command, connection and transfer
\* failures (told apart by the method and the text) and LookupError for a
\* needed prompt; ValueError/TypeError would be the argument errors.
KindOf(c, class, text) ==
    CASE class = "LookupError" -> "prompt-required"
      [] class = "RuntimeError" /\ c.op # "execute" -> "transfer-failure"
      [] class = "RuntimeError" /\ c.op = "execute"
            /\ Contains(text, "' failed with status code ") -> "command-failure"
      [] class = "RuntimeError" /\ c.op = "execute"
            /\ ~Contains(text, "' failed with status code ") -> "connection-failure"
      [] class \in {"ValueError", "TypeError"} -> "invalid-argument"
      [] class = "SystemExit" -> "process-exit"
      [] OTHER -> "unclassified"

\* What the finished call tells its caller about host h: h's entry of the
\* returned mapping, or the exception the call raised.
Surfaced(h) ==
    IF outcome.kind = "return"
    THEN [kind |-> outcome.results[h].kind, class |-> outcome.results[h].class,
          text |-> outcome.results[h].text]
    ELSE [kind |-> outcome.kind, class |-> outcome.class, text |-> outcome.text]

SurfacedKind(h) == KindOf(call, Surfaced(h).class, Surfaced(h).text)

CallHosts == Range(call.all_hosts)

ContainsAll(text, toks) == \A i \in DOMAIN toks : Contains(text, toks[i])

IsTransfer == call.op \in {"get_file", "put_file"}

\* C1: partial failure. When an execute call over a host A on which the
\* command succeeds and a host B whose connection always fails has finished,
\* the caller has A's successful result and a connection-failure for B.
C1_PartialFailure ==
    (pc = "done" /\ call.op = "execute") =>
        \A A \in CallHosts, B \in CallHosts :
            (behav[A] = "ok" /\ behav[B] = "unreachable") =>
                /\ outcome.kind = "return"
                /\ outcome.results[A].kind = "return"
                /\ ~outcome.results[A].failed
                /\ outcome.results[B].kind = "raise"
                /\ SurfacedKind(B) = "connection-failure"

\* C2: no uncontrolled exit. Whatever the transport did, a finished call of
\* execute, get_file or put_file has not raised SystemExit to its caller.
C2_NoUncontrolledExit ==
    pc = "done" => outcome.class # "SystemExit"

\* C3: a command that exits with non-zero status s and output o on a reachable
\* host surfaces, for that host, as a command-failure error carrying s and o.
C3_CommandFailure ==
    (pc = "done" /\ call.op = "execute") =>
        \A h \in CallHosts :
            (worker[h].answer.kind = "return" /\ worker[h].answer.failed) =>
                /\ Surfaced(h).kind = "raise"
                /\ SurfacedKind(h) = "command-failure"
                /\ Contains(Surfaced(h).text, ToString(worker[h].answer.return_code))
                /\ ContainsAll(Surfaced(h).text, worker[h].answer.text)

\* C4: a host on which the transport needed a prompt surfaces as
\* prompt-required, and a host on which the transport raised an exception or
\* returned a failed status never surfaces as prompt-required.
C4_PromptRequired ==
    pc = "done" =>
        \A h \in CallHosts :
            /\ worker[h].answer.class = "SystemExit" =>
                    SurfacedKind(h) = "prompt-required"
            /\ (worker[h].answer.kind # "none"
                    /\ worker[h].answer.class # "SystemExit") =>
                    SurfacedKind(h) # "prompt-required"

\* C5: attempt count. For an always-unreachable host of a finished call,
\* exactly connection_attempts connection attempts were made and the host
\* surfaces as connection-failure (transfer-failure for a file transfer).
C5_AttemptCount ==
    pc = "done" =>
        \A h \in CallHosts :
            behav[h] = "unreachable" =>
                /\ worker[h].attempts = env.connection_attempts
                /\ SurfacedKind(h) = IF IsTransfer THEN "transfer-failure"
                                     ELSE "connection-failure"

\* C6: execute with an empty host list raises invalid-argument and runs the
\* command on no host.
C6_EmptyHostList ==
    (pc = "done" /\ call.op = "execute" /\ call.hosts = <<>>) =>
        /\ outcome.kind = "raise"
        /\ KindOf(call, outcome.class, outcome.text) = "invalid-argument"
        /\ \A h \in Hosts : worker[h].pc = "none"

\* C7: get_file/put_file with a list of more than one host raises
\* invalid-argument before any connection attempt.
C7_TransferHostList ==
    (pc = "done" /\ IsTransfer /\ call.is_list /\ Len(call.hosts) > 1) =>
        /\ outcome.kind = "raise"
        /\ KindOf(call, outcome.class, outcome.text) = "invalid-argument"
        /\ \A h \in Hosts : worker[h].pc = "none" /\ worker[h].attempts = 0

\* C8: a file transfer whose transport result is failed, or whose transport
\* raised an exception, raises transfer-failure to the caller; a result is
\* returned only when the transfer result is not failed.
C8_TransferFailure ==
    (pc = "done" /\ IsTransfer) =>
        \A h \in CallHosts :
            /\ (worker[h].answer.failed /\ worker[h].answer.class # "SystemExit") =>
                    /\ outcome.kind = "raise"
                    /\ SurfacedKind(h) = "transfer-failure"
            /\ outcome.kind = "return" =>
                    /\ worker[h].answer.kind = "return"
                    /\ ~worker[h].answer.failed

\* C9: every error a per-host command or transfer ends with carries the
\* command or file pair, the host it occurred on and the cause text of the
\* underlying failure.
C9_ErrorCarries ==
    \A h \in Hosts :
        (worker[h].pc = "exited" /\ worker[h].out.kind = "raise") =>
            /\ Contains(worker[h].out.text, call.file1)
            /\ IsTransfer => Contains(worker[h].out.text, call.file2)
            /\ Contains(worker[h].out.text, h)
            /\ worker[h].answer.kind = "raise" =>
                    ContainsAll(worker[h].out.text, worker[h].answer.text)

\* C10: the per-call host list is in effect for its call only. Between calls
\* the transport's host context (env.host_string, env.hosts, env.all_hosts,
\* env.command) has its pre-call value, and a call in progress runs on exactly
\* the hosts passed to it: one child per host of its list, each bound to its
\* own host, and the local-only run only for an empty list.
C10_HostListScoped ==
    /\ pc \in {"idle", "done"} =>
          /\ env.host_string = None
          /\ env.hosts = <<>>
          /\ env.all_hosts = <<>>
          /\ env.command = None
    /\ pc \in {"running", "done"} /\ ~BadHostString(call) =>
          /\ {h \in Hosts : worker[h].pc # "none"} = Range(call.hosts)
          /\ \A h \in Range(call.hosts) : worker[h].host_string = h
    /\ pc = "local" => call.hosts = <<>>

\* C10 witness: a second call on hB alone has finished after a call on hA.
C10_Witness ==
    /\ pc = "done"
    /\ ncalls = 2
    /\ call.prev_hosts = {"hA"}
    /\ call.hosts = <<"hB">>
    /\ worker["hB"].pc = "exited"
    /\ worker["hA"].pc = "none"

\* C11: headless termination. No call and no per-host child ever waits for
\* user input, and every call in progress eventually returns or raises, also
\* when the transport needs a prompt.
C11_HeadlessTermination ==
    /\ [](pc # "blocked" /\ \A h \in Hosts : worker[h].pc # "blocked")
    /\ (pc \in {"local", "localtask", "running"}) ~> (pc = "done")

\* C11 witness: a call has finished although the transport needed a prompt
\* on one of its hosts.
C11_Witness ==
    /\ pc = "done"
    /\ \E h \in Hosts :
          worker[h].pc = "exited" /\ worker[h].answer.class = "SystemExit"

\* The authentication configuration a key_file argument asks for: without a
\* key file the default keys are permitted and no key file is configured; with
\* one the default keys are disabled and that file is the only key.
AuthMatches(e, key_file) ==
    IF key_file = None
    THEN ~e.no_keys /\ e.key_filename = None
    ELSE e.no_keys /\ e.key_filename = key_file

\* C12: from the construction of an object on (until the next construction)
\* the transport's authentication configuration matches the key_file argument
\* of that object, whatever objects were constructed before it.
C12_AuthMatchesKeyFile ==
    AuthMatches(env, sessions[Len(sessions)].key_file)

\* C13: session isolation. A call made on an object runs under the policy
\* that object was constructed with: the transport's settings during the call
\* are that policy, and an unreachable host is tried conn_attempts times.
C13_SessionIsolation ==
    pc \in {"local", "localtask", "running", "done"} =>
        LET p == sessions[call.self]
        IN  /\ env.connection_attempts = p.conn_attempts
            /\ env.command_timeout = p.cmd_timeout
            /\ env.timeout = p.net_timeout
            /\ env.gateway = p.gateway
            /\ AuthMatches(env, p.key_file)
            /\ \A h \in CallHosts :
                  (worker[h].pc = "exited" /\ behav[h] = "unreachable") =>
                      worker[h].attempts = p.conn_attempts

\* The policy settings of the transport.
PolicyOf(e) ==
    [connection_attempts |-> e.connection_attempts,
     command_timeout |-> e.command_timeout,
     timeout |-> e.timeout,
     abort_on_prompts |-> e.abort_on_prompts,
     skip_bad_hosts |-> e.skip_bad_hosts,
     parallel |-> e.parallel,
     gateway |-> e.gateway,
     no_keys |-> e.no_keys,
     key_filename |-> e.key_filename]

\* The policy an object's constructor arguments ask for.
ConfiguredPolicy(p) ==
    [connection_attempts |-> p.conn_attempts,
     command_timeout |-> p.cmd_timeout,
     timeout |-> p.net_timeout,
     abort_on_prompts |-> TRUE,
     skip_bad_hosts |-> TRUE,
     parallel |-> TRUE,
     gateway |-> p.gateway,
     no_keys |-> (p.key_file # None),
     key_filename |-> p.key_file]

\* C14: policy frame. The policy configured when the object was constructed
\* is the transport's policy before, during and after every execute, get_file
\* and put_file call on it, whether the call returns or raises.
C14_PolicyFrame ==
    PolicyOf(env) = ConfiguredPolicy(sessions[1])

C14_Witness ==
    /\ pc = "done"
    /\ ncalls = MaxCalls
    /\ outcome.kind = "raise"
    /\ \E h \in CallHosts : worker[h].exit_code # 0
    /\ PolicyOf(env) = ConfiguredPolicy(sessions[1])

\* The attempt on host h has run to the outcome that h's own behaviour gives.
OwnOutcome(h) ==
    LET w == worker[h]
        kind == KindOf(call, w.out.class, w.out.text)
    IN  /\ w.pc = "exited"
        /\ CASE behav[h] = "ok" ->
                    w.answer.kind = "return" /\ ~w.answer.failed /\ w.out = w.answer
             [] behav[h] = "nonzero" ->
                    w.answer.kind = "return" /\ w.answer.failed
                    /\ kind = "command-failure"
             [] behav[h] = "unreachable" ->
                    w.answer.class = "NetworkError"
                    /\ w.attempts = env.connection_attempts
                    /\ kind = "connection-failure"
             [] behav[h] = "prompt" ->
                    w.answer.class = "SystemExit" /\ kind = "prompt-required"
             [] behav[h] = "exception" ->
                    w.answer.class = "CommandTimeout" /\ w.out.kind = "raise"
             [] behav[h] = "flaky" ->
                    \/ w.answer.kind = "return" /\ ~w.answer.failed
                    \/ w.answer.class = "NetworkError"
                       /\ w.attempts = env.connection_attempts

\* C15: sibling isolation. When an execute call over a host list has
\* finished, every host of the list was attempted and its attempt ran to the
\* outcome of that host, whatever happened on the other hosts and in whatever
\* order the attempts ran.
C15_SiblingIsolation ==
    (pc = "done" /\ call.op = "execute") =>
        \A h \in Range(call.hosts) : OwnOutcome(h)

C15_Witness ==
    /\ pc = "done"
    /\ call.op = "execute"
    /\ Len(call.all_hosts) = 2
    /\ \E a, b \in CallHosts :
          /\ behav[a] = "unreachable" /\ behav[b] = "ok"
          /\ OwnOutcome(a) /\ OwnOutcome(b)

PromptNotRetried(h) ==
    worker[h].answer = Abort => worker[h].attempts = 1

\* C17: a prompt-required condition is never retried and is surfaced. When
\* a call has finished, a host whose connection attempt needed a prompt was
\* attempted exactly that once, also when connection_attempts is larger, and
\* the caller has prompt-required for that host.
C17_PromptNotRetried ==
    pc = "done" =>
        \A h \in CallHosts :
            worker[h].answer = Abort =>
                /\ PromptNotRetried(h)
                /\ SurfacedKind(h) = "prompt-required"

\* The warning records of the call in progress: the parent's and the children's.
WarningRecords ==
    Range(plog) \cup UNION {Range(worker[h].log) : h \in Hosts}

\* C18: every error is logged before it is raised. An error raised by the
\* per-host command or transfer of a child has, as the child's last warning
\* record, a record with the error's text; and an error that has reached the
\* caller is preceded by a warning record of that call.
C18_ErrorsLogged ==
    /\ \A h \in Hosts :
          (worker[h].pc = "exited" /\ worker[h].out.kind = "raise") =>
              /\ worker[h].log # <<>>
              /\ worker[h].log[Len(worker[h].log)] = worker[h].out.text
    /\ (pc = "done" /\ outcome.kind = "raise") => WarningRecords # {}

\* C19: output suppression is scoped to one call. The quiet setting is in
\* effect in a process exactly while its command or transfer runs, and has its
\* value from before the call again once the operation has finished, by a
\* returned result, a failed status, an exception or an exit of the transport.
C19_QuietScoped ==
    /\ \A h \in Hosts :
          /\ worker[h].pc \in {"connecting", "connected"} => worker[h].warn_only
          /\ worker[h].pc = "exited" => worker[h].warn_only = env.warn_only
    /\ pc = "localtask" => env.warn_only
    /\ pc \in {"idle", "local", "running", "done"} => ~env.warn_only

C19_Witness ==
    /\ pc = "done"
    /\ \E a, b \in CallHosts :
          /\ worker[a].answer = Abort
          /\ worker[b].answer.kind = "return" /\ worker[b].answer.failed
          /\ ~worker[a].warn_only /\ ~worker[b].warn_only
    /\ ~env.warn_only

====
